---- MODULE Spec2Model ----
(***************************************************************************)
(* A model of the dispatch core of telegraf-ecosystem (src/src/main.ts):   *)
(* the bring-up performed by Ecosystem.createBotEcosystem / init, the      *)
(* scene and update registrars, the guard-chain middleware produced by     *)
(* handleGuardCycle, and the session store adapter handed to session().    *)
(***************************************************************************)
EXTENDS Integers, Sequences, FiniteSets, TLC

(* ------------------------------------------------------------------ *)
(* Bounds of the model                                                 *)
(* ------------------------------------------------------------------ *)
MaxScenes == 3
MaxUpdates == 2
MaxGuards == 3
MaxGuards2 == 2

VARIABLES
  config,            \* the ecosystemConfig argument of createBotEcosystem
  redisReachable,    \* environment: does redisClient.connect() succeed
  ecosystemConfig,   \* the field this.ecosystemConfig
  scenesRegistry,    \* [...this.scenesRegistry], as sceneIds in insertion order
  updatesRegistry,   \* [...this.updatesRegistry], as component classes
  pc,                \* position inside createBotEcosystem / init
  pipeline,          \* what has been installed on this.bot, in install order
  stage,             \* scenes committed with this.stage.register
  registeredScenes,  \* the local registeredScenes of registerScenes
  sceneIdx,          \* loop position of registerScenes
  options,           \* the options argument of registerScenes
  instantiated,      \* sceneIds for which new sceneModule.constructor() ran
  created,           \* sceneIds for which new BaseScene(sceneId) ran
  hookLog,           \* sceneIds onSceneRegistered was invoked with
  hookPending,       \* notifications whose pending result has not settled
  redisConnects,     \* number of redisClient.connect() attempts
  launches,          \* number of this.bot.launch() calls
  error,             \* the error createBotEcosystem rejected with
  returned,          \* createBotEcosystem resolved with an Ecosystem
  run,               \* per update: the guard-chain middleware invocation
  redis,             \* the external store: key -> stored string
  lastWrite,         \* per key: the last store.set / store.delete made for it
  lastOp             \* the last store call, its operands and its result

bvars == <<config, redisReachable, ecosystemConfig, scenesRegistry,
           updatesRegistry, pc, pipeline, stage, registeredScenes, sceneIdx,
           options, instantiated, created, hookLog, hookPending,
           redisConnects, launches, error, returned>>
svars == <<redis, lastWrite, lastOp>>
vars == <<bvars, run, svars>>

(* ------------------------------------------------------------------ *)
(* Sequences                                                           *)
(* ------------------------------------------------------------------ *)
SeqsUpTo(S, n) == UNION {[1..k -> S] : k \in 0..n}

Range(s) == {s[k] : k \in DOMAIN s}

RECURSIVE Flatten(_)
Flatten(ss) == IF ss = <<>> THEN <<>> ELSE Head(ss) \o Flatten(Tail(ss))

(* ------------------------------------------------------------------ *)
(* Guards: UseGuardFn (ctx, next).  A guard is an async function, a    *)
(* plain function, or a plain function that returns a pending result   *)
(* ("promise"); fwd says whether its body calls the reference it was   *)
(* handed.                                                             *)
(* ------------------------------------------------------------------ *)
GuardKinds == {"sync", "async", "promise"}

Guard == [kind : GuardKinds, fwd : BOOLEAN]

Outcomes(kind) ==
  CASE kind = "sync" -> {"ok", "throw"}
    [] kind = "async" -> {"ok", "reject"}
    [] OTHER -> {"ok", "throw", "reject"}

G(kind, fwd) == [kind |-> kind, fwd |-> fwd]

\* a value that is an array of guards, or undefined
Defined(list) == [def |-> TRUE, list |-> list]
Undefined == [def |-> FALSE, list |-> <<>>]

(* ------------------------------------------------------------------ *)
(* Components.  A scene component is identified by its sceneId; the    *)
(* instance its constructor yields carries the handler descriptors and *)
(* the GuardMap.                                                       *)
(* ------------------------------------------------------------------ *)
SceneIds == {"home", "ctl"}

\* "ctl" is the scene of examples/officer-bot (enter, one action, one text
\* listener, no guards); "home" adds an event listener and guard lists
SceneInstance(id) ==
  IF id = "ctl"
  THEN [sceneEnterHandlers |-> <<"enter">>,
        actionListeners |-> <<"back">>,
        hearsListeners |-> <<"listenUserId">>,
        eventListeners |-> <<>>,
        guards |-> [h \in {} |-> <<>>]]
  ELSE [sceneEnterHandlers |-> <<"enter">>,
        actionListeners |-> <<"open">>,
        hearsListeners |-> <<>>,
        eventListeners |-> <<"onText">>,
        guards |-> [h \in {"open", "onText"} |->
                      IF h = "open" THEN <<G("async", FALSE)>>
                      ELSE <<G("sync", TRUE), G("sync", FALSE)>>]]

UpdateClasses == {"U1", "U2"}

UpdateInstance(cls) ==
  IF cls = "U1"
  THEN [middlewares |-> <<"log", "auth">>,
        hearsListeners |-> <<"onHi">>,
        eventListeners |-> <<>>,
        commandListeners |-> <<"start">>,
        guards |-> [h \in {"start"} |-> <<G("sync", FALSE), G("promise", FALSE)>>]]
  ELSE [middlewares |-> <<>>,
        hearsListeners |-> <<>>,
        eventListeners |-> <<"onPhoto", "onVideo">>,
        commandListeners |-> <<>>,
        guards |-> [h \in {"onPhoto"} |-> <<>>]]

\* instance?.guards?.get(handler) || []
getGuards(instance, handler) ==
  IF handler \in DOMAIN instance.guards
  THEN Defined(instance.guards[handler])
  ELSE Defined(<<>>)

\* updateInsance.guards.get(handler)
MapGet(instance, handler) ==
  IF handler \in DOMAIN instance.guards
  THEN Defined(instance.guards[handler])
  ELSE Undefined

(* ------------------------------------------------------------------ *)
(* What is installed on the bot-wide router and on a scene             *)
(* ------------------------------------------------------------------ *)
Mw(kind) ==
  [reg |-> "core", owner |-> "", pos |-> 0, kind |-> kind, handler |-> "",
   guards |-> Defined(<<>>), bound |-> TRUE]

Binding(reg, owner, pos, kind, handler, guards, bound) ==
  [reg |-> reg, owner |-> owner, pos |-> pos, kind |-> kind,
   handler |-> handler, guards |-> guards, bound |-> bound]

\* scene.enter / scene.action / scene.hears / scene.on of one scene, in order
SceneBindings(id) ==
  LET inst == SceneInstance(id)
      bind(kind, hs) ==
        [k \in DOMAIN hs |->
           Binding("scene", id, 0, kind, hs[k], getGuards(inst, hs[k]), TRUE)]
  IN bind("enter", inst.sceneEnterHandlers)
     \o bind("action", inst.actionListeners)
     \o bind("hears", inst.hearsListeners)
     \o bind("on", inst.eventListeners)

UpdateBindingsHandlersFirst(cls, pos) ==
  LET inst == UpdateInstance(cls)
      use == [k \in DOMAIN inst.middlewares |->
                Binding("update", cls, pos, "use", inst.middlewares[k],
                        Defined(<<>>), FALSE)]
      bind(kind, hs) ==
        [k \in DOMAIN hs |->
           Binding("update", cls, pos, kind, hs[k], MapGet(inst, hs[k]), FALSE)]
  IN bind("hears", inst.hearsListeners)
     \o bind("on", inst.eventListeners)
     \o bind("command", inst.commandListeners)
     \o use

\* bot.use / bot.hears / bot.on / bot.command of one update component
UpdateBindings(cls, pos) ==
  LET inst == UpdateInstance(cls)
      use == [k \in DOMAIN inst.middlewares |->
                Binding("update", cls, pos, "use", inst.middlewares[k],
                        Defined(<<>>), FALSE)]
      bind(kind, hs) ==
        [k \in DOMAIN hs |->
           Binding("update", cls, pos, kind, hs[k], MapGet(inst, hs[k]), FALSE)]
  IN use
     \o bind("hears", inst.hearsListeners)
     \o bind("on", inst.eventListeners)
     \o bind("command", inst.commandListeners)

\* the for-of loop of registerUpdates over all components
UpdateRegistrations(classes) ==
  Flatten([k \in DOMAIN classes |-> UpdateBindings(classes[k], k)])

(* ------------------------------------------------------------------ *)
(* Start-up configuration (EcosystemConfig)                            *)
(* ------------------------------------------------------------------ *)
HookKinds == {"none", "sync", "async", "promise"}

Configs == [session : BOOLEAN, hook : HookKinds]

\* the field this.ecosystemConfig before line 55 assigns it
NoConfig == [def |-> FALSE, session |-> FALSE, hook |-> "none"]

SetConfig(c) == [def |-> TRUE, session |-> c.session, hook |-> c.hook]

\* the options argument registerScenes is called with on line 118: none
NoOptions == [def |-> FALSE, hook |-> "none"]

InitSceneOptions == NoOptions

(* ------------------------------------------------------------------ *)
(* The statement order of init, and what a throw inside it does        *)
(* ------------------------------------------------------------------ *)
InitOrderUpdatesFirst == <<"session", "inject", "updates", "scenes", "launch">>

InitOrderInjectFirst == <<"inject", "session", "scenes", "updates", "launch">>

InitOrderLaunchEarly == <<"session", "inject", "scenes", "launch", "updates">>

InitOrder == <<"session", "inject", "scenes", "updates", "launch">>

\* the statement that follows phase p; after the last one init resolves and
\* createBotEcosystem continues on line 55
Advance(p) ==
  LET k == CHOOSE j \in DOMAIN InitOrder : InitOrder[j] = p
  IN IF k < Len(InitOrder) THEN InitOrder[k + 1] ELSE "return"

RaiseSwallowed(p) == IF p = "scenes" THEN Advance(p) ELSE "failed"

\* nothing in init or createBotEcosystem catches: the promise rejects
Raise(p) == "failed"

PassCompleteEarly(idx, list) == idx >= Len(list)

\* the for-of loop over sceneModules has no component left
PassComplete(idx, list) == idx > Len(list)

HasSceneRegisteredLastOnly(registered, id) ==
  registered # <<>> /\ registered[Len(registered)] = id

\* registeredScenes.includes(sceneModule.sceneId)
HasSceneRegistered(registered, id) == \E k \in DOMAIN registered : registered[k] = id

(* ------------------------------------------------------------------ *)
(* createBotEcosystem / init                                           *)
(* ------------------------------------------------------------------ *)
\* this.stage = new Stage(); this.bot = new Telegraf(); the session middleware
InitSession ==
  /\ pc = "session"
  /\ IF ecosystemConfig.def /\ ecosystemConfig.session
     THEN /\ redisConnects' = redisConnects + 1
          /\ IF redisReachable
             THEN /\ pipeline' = Append(pipeline, Mw("session-redis"))
                  /\ pc' = Advance("session")
                  /\ error' = error
             ELSE /\ error' = "redisLostConnection"
                  /\ pc' = Raise("session")
                  /\ pipeline' = pipeline
     ELSE /\ pipeline' = Append(pipeline, Mw("session-memory"))
          /\ pc' = Advance("session")
          /\ UNCHANGED <<redisConnects, error>>
  /\ UNCHANGED <<config, redisReachable, ecosystemConfig, scenesRegistry,
                 updatesRegistry, stage, registeredScenes, sceneIdx, options,
                 instantiated, created, hookLog, hookPending, launches,
                 returned, run, svars>>

\* this.bot.use(this.injectInternalModules())
InjectInternalModules ==
  /\ pc = "inject"
  /\ pipeline' = Append(pipeline, Mw("inject"))
  /\ pc' = Advance("inject")
  /\ UNCHANGED <<config, redisReachable, ecosystemConfig, scenesRegistry,
                 updatesRegistry, stage, registeredScenes, sceneIdx, options,
                 instantiated, created, hookLog, hookPending, redisConnects,
                 launches, error, returned, run, svars>>

\* await this.registerScenes([...this.scenesRegistry]): entry of the pass
CallRegisterScenes ==
  /\ pc = "scenes"
  /\ options' = InitSceneOptions
  /\ registeredScenes' = <<>>
  /\ sceneIdx' = 1
  /\ pc' = "sceneLoop"
  /\ UNCHANGED <<config, redisReachable, ecosystemConfig, scenesRegistry,
                 updatesRegistry, pipeline, stage, instantiated, created,
                 hookLog, hookPending, redisConnects, launches, error,
                 returned, run, svars>>

\* one iteration of the for-of loop of registerScenes
RegisterScene ==
  /\ pc = "sceneLoop"
  /\ sceneIdx <= Len(scenesRegistry)
  /\ LET id == scenesRegistry[sceneIdx]
         notify == options.def /\ options.hook # "none"
     IN IF HasSceneRegistered(registeredScenes, id)
        THEN /\ error' = "duplicateScene"
             /\ pc' = Raise("scenes")
             /\ UNCHANGED <<stage, registeredScenes, sceneIdx, instantiated,
                            created, hookLog, hookPending>>
        ELSE /\ instantiated' = Append(instantiated, id)
             /\ created' = Append(created, id)
             /\ hookLog' = IF notify THEN Append(hookLog, id) ELSE hookLog
             \* only an async function is awaited (isAsyncFunction)
             /\ hookPending' = IF notify /\ options.hook = "promise"
                               THEN hookPending \cup {id}
                               ELSE hookPending
             /\ stage' = Append(stage, [sceneId |-> id,
                                        bindings |-> SceneBindings(id)])
             /\ registeredScenes' = Append(registeredScenes, id)
             /\ sceneIdx' = sceneIdx + 1
             /\ UNCHANGED <<pc, error>>
  /\ UNCHANGED <<config, redisReachable, ecosystemConfig, scenesRegistry,
                 updatesRegistry, pipeline, options, redisConnects, launches,
                 returned, run, svars>>

\* this.bot.use(this.stage.middleware()) once the loop is over
InstallStage ==
  /\ pc = "sceneLoop"
  /\ PassComplete(sceneIdx, scenesRegistry)
  /\ pipeline' = Append(pipeline, Mw("stage"))
  /\ pc' = Advance("scenes")
  /\ UNCHANGED <<config, redisReachable, ecosystemConfig, scenesRegistry,
                 updatesRegistry, stage, registeredScenes, sceneIdx, options,
                 instantiated, created, hookLog, hookPending, redisConnects,
                 launches, error, returned, run, svars>>

\* this.registerUpdates([...this.updatesRegistry]): synchronous, all components
RegisterUpdates ==
  /\ pc = "updates"
  /\ pipeline' = pipeline \o UpdateRegistrations(updatesRegistry)
  /\ pc' = Advance("updates")
  /\ UNCHANGED <<config, redisReachable, ecosystemConfig, scenesRegistry,
                 updatesRegistry, stage, registeredScenes, sceneIdx, options,
                 instantiated, created, hookLog, hookPending, redisConnects,
                 launches, error, returned, run, svars>>

\* this.bot.launch(...), not awaited
Launch ==
  /\ pc = "launch"
  /\ launches' = launches + 1
  /\ pc' = Advance("launch")
  /\ UNCHANGED <<config, redisReachable, ecosystemConfig, scenesRegistry,
                 updatesRegistry, pipeline, stage, registeredScenes, sceneIdx,
                 options, instantiated, created, hookLog, hookPending,
                 redisConnects, error, returned, run, svars>>

\* createdBotEcosystem.ecosystemConfig = ecosystemConfig; return
Return ==
  /\ pc = "return"
  /\ ecosystemConfig' = SetConfig(config)
  /\ returned' = TRUE
  /\ pc' = "done"
  /\ UNCHANGED <<config, redisReachable, scenesRegistry, updatesRegistry,
                 pipeline, stage, registeredScenes, sceneIdx, options,
                 instantiated, created, hookLog, hookPending, redisConnects,
                 launches, error, run, svars>>

(* ------------------------------------------------------------------ *)
(* handleGuardCycle: the middleware async (ctx, next) => {...}          *)
(* ------------------------------------------------------------------ *)
\* the per-update context before any middleware has touched it
BareCtx == [ok |-> FALSE, okAndEdit |-> FALSE]

IdleRun ==
  [st |-> "idle", guards |-> Undefined, out |-> <<>>, i |-> 1,
   invoked |-> <<>>, entered |-> <<>>, nextCalls |-> 0, err |-> "none",
   failedAt |-> 0, floating |-> {}, unhandled |-> {},
   binding |-> Mw("none"),
   pos |-> 1, ctx |-> BareCtx, augNext |-> 0, bare |-> FALSE]

\* the middleware is called for an update routed to binding b; out[k] is what
\* the body of guard k does for this update
StartRun(b, guards, out) ==
  [IdleRun EXCEPT !.st = "running", !.guards = guards, !.out = out,
                  !.binding = b]

OutcomesFor(list) ==
  {o \in [DOMAIN list -> {"ok", "throw", "reject"}] :
     \A k \in DOMAIN list : o[k] \in Outcomes(list[k].kind)}

LoopContinuesOffByOne(i, list) == i < Len(list)

\* i < guards.length, with i counted from 1
LoopContinues(i, list) == i <= Len(list)

\* isAsyncFunction(guard) of util/types: true of async functions only
IsAsyncFunction(g) == g.kind = "async"

\* Does the body of guard i call a next guard that throws synchronously?  The
\* reference handed to guard i is guards[i + 1] ?? emptyFunction.
ForwardThrows(list, out, i) ==
  /\ list[i].fwd
  /\ i < Len(list)
  /\ list[i + 1].kind # "async"
  /\ out[i + 1] = "throw"

\* What the call guard(ctx, nextGuard ?? emptyFunction) does: "throw" (a
\* synchronous throw), "return" (a plain value), or a pending result that
\* later settles with "resolve" or "reject".
InvokeResult(list, out, i) ==
  LET g == list[i]
  IN IF g.kind = "async"
     THEN IF out[i] = "reject" \/ ForwardThrows(list, out, i)
          THEN "reject" ELSE "resolve"
     ELSE IF out[i] = "throw" \/ ForwardThrows(list, out, i) THEN "throw"
     ELSE IF g.kind = "promise"
          THEN IF out[i] = "reject" THEN "reject" ELSE "resolve"
          ELSE "return"

BodiesEnteredNoForward(list, i) == <<i>>

\* the guard bodies entered by the call of guard i: its own, and the next
\* guard's when it forwards
BodiesEntered(list, i) ==
  IF list[i].fwd /\ i < Len(list) THEN <<i, i + 1>> ELSE <<i>>

\* One pass through the loop head: the length test, then either the call of
\* guards[i] or, past the last guard, return next().
GuardLoop(u) ==
  LET r == run[u]
      list == r.guards.list
  IN /\ r.st = "running"
     /\ run' = [run EXCEPT ![u] =
          IF ~r.guards.def
          THEN [r EXCEPT !.st = "failed", !.err = "TypeError"]
          ELSE IF LoopContinues(r.i, list)
          THEN LET res == InvokeResult(list, r.out, r.i)
                   called == [r EXCEPT !.invoked = Append(r.invoked, r.i),
                                       !.entered = r.entered \o BodiesEntered(list, r.i)]
               IN IF res = "throw"
                  THEN [called EXCEPT !.st = "failed", !.err = "guard",
                                      !.failedAt = r.i]
                  ELSE IF IsAsyncFunction(list[r.i])
                  THEN [called EXCEPT !.st = "awaiting"]
                  ELSE [called EXCEPT !.i = r.i + 1,
                          !.floating = IF res = "return" THEN r.floating
                                       ELSE r.floating \cup {r.i}]
          ELSE [r EXCEPT !.st = "done", !.nextCalls = r.nextCalls + 1]]
     /\ UNCHANGED <<bvars, svars>>

\* the awaited result of guards[i] settles
GuardSettle(u) ==
  LET r == run[u]
  IN /\ r.st = "awaiting"
     /\ run' = [run EXCEPT ![u] =
          IF InvokeResult(r.guards.list, r.out, r.i) = "reject"
          THEN [r EXCEPT !.st = "failed", !.err = "guard", !.failedAt = r.i]
          ELSE [r EXCEPT !.st = "running", !.i = r.i + 1]]
     /\ UNCHANGED <<bvars, svars>>

\* a pending result the loop did not await settles; a rejection is unhandled
FloatSettle(u) ==
  LET r == run[u]
  IN /\ r.floating # {}
     /\ \E k \in r.floating :
          run' = [run EXCEPT ![u] =
            [r EXCEPT !.floating = r.floating \ {k},
                      !.unhandled =
                        IF InvokeResult(r.guards.list, r.out, k) = "reject"
                        THEN r.unhandled \cup {k} ELSE r.unhandled]]
     /\ UNCHANGED <<bvars, svars>>

(* ------------------------------------------------------------------ *)
(* Routing of an update once the bot has been launched                 *)
(* ------------------------------------------------------------------ *)
\* every (guard chain, handler) pair registered on the bot or on a scene
HandlerBindings ==
  {pipeline[k] : k \in {j \in DOMAIN pipeline :
                          pipeline[j].reg = "update" /\ pipeline[j].kind # "use"}}
  \cup UNION {Range(stage[k].bindings) : k \in DOMAIN stage}

\* an update matching binding b enters the pipeline of the bot; polling
\* delivers updates only after the synchronous rest of bring-up has run
Dispatch(u) ==
  /\ launches > 0
  /\ pc \in {"done", "failed"}
  /\ run[u].st = "idle"
  /\ \E b \in HandlerBindings :
       \E out \in OutcomesFor(b.guards.list) :
         run' = [run EXCEPT ![u] =
                   [StartRun(b, b.guards, out) EXCEPT !.st = "pipeline"]]
  /\ UNCHANGED <<bvars, svars>>

AugmentOkOnly(ctx) == [ctx EXCEPT !.ok = TRUE]

\* newCtx.ok = ...; newCtx.okAndEdit = ... of injectInternalModules
Augment(ctx) == [ctx EXCEPT !.ok = TRUE, !.okAndEdit = TRUE]

HasCapabilities(ctx) == ctx.ok /\ ctx.okAndEdit

\* The middleware at position pos of the pipeline runs for the update and
\* hands over with next(): the augmenter after attaching the capabilities,
\* the stage middleware into the scene's handler when the update is for a
\* scene, a registration of the update registrar into its guard chain when
\* the update matches it.
PipelineStep(u) ==
  LET r == run[u]
  IN /\ r.st = "pipeline"
     /\ run' = [run EXCEPT ![u] =
          IF r.pos > Len(pipeline)
          THEN [r EXCEPT !.st = "unmatched"]
          ELSE LET m == pipeline[r.pos]
               IN IF m = Mw("inject")
                  THEN [r EXCEPT !.ctx = Augment(r.ctx),
                                 !.augNext = r.augNext + 1,
                                 !.pos = r.pos + 1]
                  ELSE IF (m = Mw("stage") /\ r.binding.reg = "scene")
                          \/ m = r.binding
                  THEN [r EXCEPT !.st = "running",
                                 !.bare = r.bare \/ ~HasCapabilities(r.ctx)]
                  ELSE IF m.reg = "update" /\ m.kind = "use"
                  THEN [r EXCEPT !.pos = r.pos + 1,
                                 !.bare = r.bare \/ ~HasCapabilities(r.ctx)]
                  ELSE [r EXCEPT !.pos = r.pos + 1]]
     /\ UNCHANGED <<bvars, svars>>

(* ------------------------------------------------------------------ *)
(* The session store handed to session(): get / set / delete over the  *)
(* external backend, with JSON.stringify and JSON.parse in between     *)
(* ------------------------------------------------------------------ *)
\* the property names session objects are drawn from, in insertion order
PropNameOrder == <<"a", "b">>

PropNames == Range(PropNameOrder)

V(t, v) == [t |-> t, v |-> v]

\* the property values of a session object
JsValues == {V("num", "1"), V("str", "x"), V("null", ""), V("undefined", ""),
             V("nan", "")}

\* a session object: its own properties and their values
SessionObjects == UNION {[D -> JsValues] : D \in SUBSET PropNames}

StoreKeys == {"chat1", "chat2"}

Tok(tok, v) == [tok |-> tok, v |-> v]

\* the JSON text of one property value; undefined has none
ValueToken(val) ==
  CASE val.t = "num" -> Tok("num", val.v)
    [] val.t = "str" -> Tok("str", val.v)
    [] OTHER -> Tok("lit", "null")

RECURSIVE StringifyMembers(_, _, _)
StringifyMembers(obj, k, first) ==
  IF k > Len(PropNameOrder) THEN <<>>
  ELSE LET n == PropNameOrder[k]
       IN IF n \in DOMAIN obj /\ obj[n].t # "undefined"
          THEN (IF first THEN <<>> ELSE <<Tok("punct", ",")>>)
               \o <<Tok("key", n), Tok("punct", ":"), ValueToken(obj[n])>>
               \o StringifyMembers(obj, k + 1, FALSE)
          ELSE StringifyMembers(obj, k + 1, first)

StringifyDropsNull(obj) ==
  <<Tok("punct", "{")>>
  \o StringifyMembers([n \in {m \in DOMAIN obj : obj[m].t # "null"} |-> obj[n]],
                      1, TRUE)
  \o <<Tok("punct", "}")>>

\* JSON.stringify(session): the text, as its sequence of tokens
Stringify(obj) ==
  <<Tok("punct", "{")>> \o StringifyMembers(obj, 1, TRUE) \o <<Tok("punct", "}")>>

\* the value a JSON value token parses to
TokenValue(tok) ==
  CASE tok.tok = "num" -> V("num", tok.v)
    [] tok.tok = "str" -> V("str", tok.v)
    [] OTHER -> V("null", "")

RECURSIVE ParseMembers(_)
ParseMembers(toks) ==
  IF toks = <<>> \/ Head(toks) = Tok("punct", "}") THEN <<>>
  ELSE IF Head(toks) = Tok("punct", ",") THEN ParseMembers(Tail(toks))
  ELSE (toks[1].v :> TokenValue(toks[3])) @@ ParseMembers(SubSeq(toks, 4, Len(toks)))

\* JSON.parse(value)
Parse(text) == ParseMembers(Tail(text))

NoWrite == [op |-> "none", obj |-> <<>>]

Absent == [def |-> FALSE, obj |-> <<>>]

\* async set(key, session) { return redisClient.set(key, JSON.stringify(session)) }
StoreSet(k, obj) ==
  /\ redis' = (k :> Stringify(obj)) @@ redis
  /\ lastWrite' = [lastWrite EXCEPT ![k] = [op |-> "set", obj |-> obj]]
  /\ lastOp' = [op |-> "set", key |-> k, res |-> Absent]
  /\ UNCHANGED <<bvars, run>>

\* async get(key): value ? JSON.parse(value) : undefined
StoreGet(k) ==
  /\ lastOp' = [op |-> "get", key |-> k,
                res |-> IF k \in DOMAIN redis /\ redis[k] # <<>>
                        THEN [def |-> TRUE, obj |-> Parse(redis[k])]
                        ELSE Absent]
  /\ UNCHANGED <<redis, lastWrite, bvars, run>>

\* async delete(key) { return redisClient.del(key) }
StoreDelete(k) ==
  /\ redis' = [j \in DOMAIN redis \ {k} |-> redis[j]]
  /\ lastWrite' = [lastWrite EXCEPT ![k] = [op |-> "delete", obj |-> <<>>]]
  /\ lastOp' = [op |-> "delete", key |-> k, res |-> Absent]
  /\ UNCHANGED <<bvars, run>>

(* ------------------------------------------------------------------ *)
(* Specifications                                                      *)
(* ------------------------------------------------------------------ *)
StoreIdle ==
  /\ redis = <<>>
  /\ lastWrite = [k \in StoreKeys |-> NoWrite]
  /\ lastOp = [op |-> "none", key |-> "", res |-> Absent]

BringUpIdle ==
  /\ config = [session |-> FALSE, hook |-> "none"]
  /\ redisReachable = TRUE
  /\ ecosystemConfig = NoConfig
  /\ scenesRegistry = <<>>
  /\ updatesRegistry = <<>>
  /\ pc = "idle"
  /\ pipeline = <<>>
  /\ stage = <<>>
  /\ registeredScenes = <<>>
  /\ sceneIdx = 1
  /\ options = NoOptions
  /\ instantiated = <<>>
  /\ created = <<>>
  /\ hookLog = <<>>
  /\ hookPending = {}
  /\ redisConnects = 0
  /\ launches = 0
  /\ error = "none"
  /\ returned = FALSE

\* the components collected in the registries before start-up
SceneRegistries == SeqsUpTo(SceneIds, MaxScenes)

UpdateRegistries == SeqsUpTo(UpdateClasses, MaxUpdates)

\* createBotEcosystem(config) has constructed the Ecosystem and calls init
Init ==
  /\ config \in Configs
  /\ redisReachable \in (IF config.session THEN BOOLEAN ELSE {TRUE})
  /\ ecosystemConfig = NoConfig
  /\ scenesRegistry \in SceneRegistries
  /\ updatesRegistry \in UpdateRegistries
  /\ pc = InitOrder[1]
  /\ pipeline = <<>>
  /\ stage = <<>>
  /\ registeredScenes = <<>>
  /\ sceneIdx = 1
  /\ options = NoOptions
  /\ instantiated = <<>>
  /\ created = <<>>
  /\ hookLog = <<>>
  /\ hookPending = {}
  /\ redisConnects = 0
  /\ launches = 0
  /\ error = "none"
  /\ returned = FALSE
  /\ run = [u \in {1} |-> IdleRun]
  /\ StoreIdle

Next ==
  \/ InitSession
  \/ InjectInternalModules
  \/ CallRegisterScenes
  \/ RegisterScene
  \/ InstallStage
  \/ RegisterUpdates
  \/ Launch
  \/ Return
  \/ \E u \in DOMAIN run : Dispatch(u)
  \/ \E u \in DOMAIN run : PipelineStep(u)
  \/ \E u \in DOMAIN run : GuardLoop(u)
  \/ \E u \in DOMAIN run : GuardSettle(u)
  \/ \E u \in DOMAIN run : FloatSettle(u)

Spec == Init /\ [][Next]_vars

\* the middleware handleGuardCycle(guards) is invoked for one update
InitGuard ==
  /\ BringUpIdle
  /\ StoreIdle
  /\ \E list \in SeqsUpTo(Guard, MaxGuards) :
       \E out \in OutcomesFor(list) :
         run = [u \in {1} |-> StartRun(Mw("direct"), Defined(list), out)]

NextGuard ==
  \/ \E u \in DOMAIN run : GuardLoop(u)
  \/ \E u \in DOMAIN run : GuardSettle(u)
  \/ \E u \in DOMAIN run : FloatSettle(u)

SpecGuard == InitGuard /\ [][NextGuard]_vars

\* the same middleware is invoked for two updates that are in flight together
InitGuard2 ==
  /\ BringUpIdle
  /\ StoreIdle
  /\ \E list \in SeqsUpTo(Guard, MaxGuards2) :
       \E out1 \in OutcomesFor(list), out2 \in OutcomesFor(list) :
         run = [u \in {1, 2} |->
                  StartRun(Mw("direct"), Defined(list),
                           IF u = 1 THEN out1 ELSE out2)]

SpecGuard2 == InitGuard2 /\ [][NextGuard]_vars

\* the session store adapter over an empty backend
InitStore ==
  /\ BringUpIdle
  /\ run = [u \in {1} |-> IdleRun]
  /\ StoreIdle

NextStore ==
  \/ \E k \in StoreKeys, obj \in SessionObjects : StoreSet(k, obj)
  \/ \E k \in StoreKeys : StoreGet(k)
  \/ \E k \in StoreKeys : StoreDelete(k)

SpecStore == InitStore /\ [][NextStore]_vars

(* ================================================================== *)
(* Properties                                                          *)
(* ================================================================== *)
AllOk(r) == \A k \in DOMAIN r.out : r.out[k] = "ok"

UpTo(n) == [k \in 1..n |-> k]

(* C1: when no guard throws or rejects, the loop of the guard-chain        *)
(* middleware invokes the guards in declared order, each once, and next    *)
(* is called exactly once, only after all n guards have been invoked,      *)
(* whether or not a guard calls the reference it was handed; until then    *)
(* the middleware can always take its next step.                           *)
C1_GuardsInOrderThenNext ==
  \A u \in DOMAIN run :
    LET r == run[u]
        n == Len(r.guards.list)
    IN (r.st # "idle" /\ r.guards.def /\ AllOk(r)) =>
         /\ r.st # "failed"
         /\ Len(r.invoked) <= n
         /\ r.invoked = UpTo(Len(r.invoked))
         /\ r.nextCalls = (IF r.st = "done" THEN 1 ELSE 0)
         /\ (r.nextCalls = 1 => r.invoked = UpTo(n))
         /\ (r.st = "running" => ENABLED GuardLoop(u))
         /\ (r.st = "awaiting" => ENABLED GuardSettle(u))

C1_Witness ==
  \E u \in DOMAIN run :
    LET r == run[u]
    IN /\ r.st = "done" /\ AllOk(r) /\ r.nextCalls = 1
       /\ Len(r.guards.list) = 3
       /\ r.guards.list[1].fwd /\ ~r.guards.list[2].fwd
       /\ r.guards.list[2].kind = "async" /\ r.guards.list[3].kind = "promise"
       /\ r.invoked = <<1, 2, 3>>

FirstDup(ids) ==
  LET dups == {k \in DOMAIN ids : \E j \in 1..(k - 1) : ids[j] = ids[k]}
  IN IF dups = {} THEN 0 ELSE CHOOSE k \in dups : \A j \in dups : k <= j

StageIds == [k \in DOMAIN stage |-> stage[k].sceneId]

ScenesPassOver == pc \notin {"session", "inject", "scenes", "sceneLoop"}

(* C2: when a sceneId occurs twice in the list registerScenes is given,    *)
(* the pass raises the duplicate-scene error at the second occurrence:     *)
(* only the components before it are ever instantiated, created or         *)
(* committed, and nothing at or after it is.                               *)
C2_DuplicateAbortsPass ==
  LET d == FirstDup(scenesRegistry)
      before == SubSeq(scenesRegistry, 1, d - 1)
  IN /\ (error = "duplicateScene" => d > 0)
     /\ d > 0 =>
          /\ Len(instantiated) < d /\ Len(created) < d /\ Len(stage) < d
          /\ StageIds = SubSeq(scenesRegistry, 1, Len(stage))
          /\ (ScenesPassOver => error = "duplicateScene")
          /\ (error = "duplicateScene" =>
                /\ instantiated = before
                /\ created = before
                /\ StageIds = before
                /\ registeredScenes = before)

C2_Witness ==
  /\ error = "duplicateScene"
  /\ scenesRegistry = <<"home", "home", "ctl">>
  /\ StageIds = <<"home">>

\* guard k was called by the loop and threw, or its pending result has rejected
GuardFailed(r, k) ==
  /\ k \in Range(r.invoked)
  /\ \/ InvokeResult(r.guards.list, r.out, k) = "throw"
     \/ /\ InvokeResult(r.guards.list, r.out, k) = "reject"
        /\ k \notin r.floating
        /\ ~(r.st = "awaiting" /\ r.i = k)

(* C3: if guard gi throws synchronously or its pending result rejects,     *)
(* the middleware fails with that error, the loop starts no guard after    *)
(* gi and next (the handler) is never called.                              *)
C3_GuardFailureAborts ==
  \A u \in DOMAIN run :
    LET r == run[u]
    IN r.guards.def =>
         \A k \in DOMAIN r.guards.list :
           GuardFailed(r, k) =>
             /\ r.st = "failed" /\ r.err = "guard" /\ r.failedAt = k
             /\ r.nextCalls = 0
             /\ \A j \in Range(r.invoked) : j <= k

IsSessionMw(m) == m.reg = "core" /\ m.kind \in {"session-redis", "session-memory"}

Installed(kind) == \E k \in DOMAIN pipeline : pipeline[k] = Mw(kind)

(* C4: when the configuration has a session section, init attempts a       *)
(* connection to the session backend; if it fails, bring-up fails with     *)
(* the lost-connection error, no session middleware is installed, nothing  *)
(* is registered and the bot is never launched.                            *)
C4_SessionConfigConnects ==
  (config.session /\ pc # "session") =>
    /\ redisConnects = 1
    /\ ~redisReachable =>
         /\ error = "redisLostConnection" /\ pc = "failed"
         /\ \A k \in DOMAIN pipeline : ~IsSessionMw(pipeline[k])
         /\ stage = <<>>
         /\ \A k \in DOMAIN pipeline : pipeline[k].reg = "core"
         /\ launches = 0

JsonSafe(obj) == \A n \in DOMAIN obj : obj[n].t \notin {"undefined", "nan"}

\* what JSON.parse(JSON.stringify(obj)) keeps of obj
JsonImage(obj) ==
  [n \in {m \in DOMAIN obj : obj[m].t # "undefined"} |->
     IF obj[n].t = "nan" THEN V("null", "") ELSE obj[n]]

(* C5 as claimed: a get(k) after set(k, obj), with no write to k in        *)
(* between, returns a value structurally equal to obj, for every session   *)
(* object; after delete(k), or when k was never set, it returns absent.    *)
C5_RoundTripEveryObject ==
  lastOp.op = "get" =>
    LET w == lastWrite[lastOp.key]
    IN IF w.op = "set"
       THEN lastOp.res.def /\ lastOp.res.obj = w.obj
       ELSE ~lastOp.res.def

(* C5 as amended: a get(k) after set(k, obj) returns what JSON keeps of    *)
(* obj (undefined-valued properties dropped, NaN turned into null), which  *)
(* is structurally equal to obj whenever obj holds neither; after          *)
(* delete(k), or when k was never set, it returns absent.                  *)
C5_RoundTripJsonObjects ==
  lastOp.op = "get" =>
    LET w == lastWrite[lastOp.key]
    IN IF w.op = "set"
       THEN /\ lastOp.res.def
            /\ lastOp.res.obj = JsonImage(w.obj)
            /\ (JsonSafe(w.obj) => lastOp.res.obj = w.obj)
       ELSE ~lastOp.res.def

C5_Witness ==
  /\ lastOp.op = "get" /\ lastOp.key = "chat1"
  /\ lastWrite["chat1"].op = "set"
  /\ lastWrite["chat1"].obj = [n \in {"a", "b"} |->
                                 IF n = "a" THEN V("num", "1") ELSE V("null", "")]
  /\ lastWrite["chat2"].op = "delete"
  /\ lastOp.res.def /\ lastOp.res.obj = lastWrite["chat1"].obj

Count(s, x) == Cardinality({k \in DOMAIN s : s[k] = x})

(* C6: when the configuration sets onSceneRegistered, bring-up invokes     *)
(* the hook exactly once per registered scene with its sceneId, and the    *)
(* hook has completed before that scene's handlers are bound.              *)
C6_HookOncePerScene ==
  config.hook # "none" =>
    \A k \in DOMAIN stage :
      /\ Count(hookLog, stage[k].sceneId) = 1
      /\ stage[k].sceneId \notin hookPending

IsUpdateUse(m) == m.reg = "update" /\ m.kind = "use"

(* C7 as claimed: every global middleware of an Update component is        *)
(* installed on the bot-wide router before the stage middleware.           *)
C7_UpdateMiddlewaresBeforeStage ==
  \A i, j \in DOMAIN pipeline :
    (pipeline[i] = Mw("stage") /\ IsUpdateUse(pipeline[j])) => j < i

(* C7 as amended: the stage middleware is installed on the bot-wide        *)
(* router before every global middleware of an Update component, and no    *)
(* such middleware is installed unless the stage middleware already is.    *)
C7_StageBeforeUpdateMiddlewares ==
  \A j \in DOMAIN pipeline :
    IsUpdateUse(pipeline[j]) =>
      \E i \in 1..(j - 1) : pipeline[i] = Mw("stage")

C7_Witness ==
  /\ Installed("stage")
  /\ \E j \in DOMAIN pipeline : IsUpdateUse(pipeline[j])
  /\ Len(stage) = 2

HandlerInstanceOf(b) ==
  IF b.reg = "scene" THEN SceneInstance(b.owner) ELSE UpdateInstance(b.owner)

HasGuardEntry(b) == b.handler \in DOMAIN HandlerInstanceOf(b).guards

(* C8: for a handler bound by either registrar whose method has no         *)
(* GuardMap entry, the guard chain is built from an empty guard list: on   *)
(* a matching update it runs no guard, raises no error and calls next      *)
(* exactly once.                                                           *)
C8_NoEntryMeansEmptyChain ==
  \A u \in DOMAIN run :
    LET r == run[u]
    IN (r.st # "idle" /\ r.binding.reg \in {"scene", "update"}
        /\ ~HasGuardEntry(r.binding)) =>
         /\ r.st # "failed"
         /\ r.invoked = <<>>
         /\ r.nextCalls = (IF r.st = "done" THEN 1 ELSE 0)

AllSceneHandlersBound(sc) ==
  LET inst == SceneInstance(sc.sceneId)
      has(kind, h) == \E k \in DOMAIN sc.bindings :
                        sc.bindings[k].kind = kind /\ sc.bindings[k].handler = h
  IN /\ \A h \in Range(inst.sceneEnterHandlers) : has("enter", h)
     /\ \A h \in Range(inst.actionListeners) : has("action", h)
     /\ \A h \in Range(inst.hearsListeners) : has("hears", h)
     /\ \A h \in Range(inst.eventListeners) : has("on", h)

AllUpdateHandlersRegistered(cls, pos) ==
  LET inst == UpdateInstance(cls)
      has(kind, h) == \E k \in DOMAIN pipeline :
                        /\ pipeline[k].reg = "update" /\ pipeline[k].owner = cls
                        /\ pipeline[k].pos = pos
                        /\ pipeline[k].kind = kind /\ pipeline[k].handler = h
  IN /\ \A h \in Range(inst.middlewares) : has("use", h)
     /\ \A h \in Range(inst.hearsListeners) : has("hears", h)
     /\ \A h \in Range(inst.eventListeners) : has("on", h)
     /\ \A h \in Range(inst.commandListeners) : has("command", h)

(* C9: bot.launch is called at most once, and only after the session       *)
(* middleware and the context augmenter are installed, every scene of the  *)
(* registry is committed with all its handlers bound, no onSceneRegistered *)
(* notification is outstanding, the stage middleware is installed and      *)
(* every Update component's handlers are registered.                       *)
C9_LaunchAfterRegistration ==
  /\ launches <= 1
  /\ launches = 1 =>
       /\ \E k \in DOMAIN pipeline : IsSessionMw(pipeline[k])
       /\ Installed("inject")
       /\ StageIds = scenesRegistry
       /\ \A k \in DOMAIN stage : AllSceneHandlersBound(stage[k])
       /\ hookPending = {}
       /\ Installed("stage")
       /\ \A k \in DOMAIN updatesRegistry :
            AllUpdateHandlersRegistered(updatesRegistry[k], k)

C9_Witness ==
  /\ launches = 1
  /\ Len(stage) = 2
  /\ updatesRegistry = <<"U2", "U1">>
  /\ pc = "done"

(* C10: if the registration pass raises, createBotEcosystem fails with     *)
(* that error and returns no Ecosystem, the stage middleware is not        *)
(* installed, no Update component is registered and bot.launch is never    *)
(* called.                                                                 *)
C10_RegistrationErrorPropagates ==
  error = "duplicateScene" =>
    /\ pc = "failed"
    /\ ~returned
    /\ ~Installed("stage")
    /\ \A k \in DOMAIN pipeline : pipeline[k].reg # "update"
    /\ launches = 0
    /\ \A u \in DOMAIN run : run[u].st = "idle"

C10_Witness ==
  /\ error = "duplicateScene"
  /\ pc = "failed"
  /\ Len(stage) = 2
  /\ Len(updatesRegistry) = 2

GuardStates == {"running", "awaiting", "done", "failed"}

\* the update is at a middleware or handler registered by a registrar
AtUserCode(r) ==
  \/ r.st \in GuardStates
  \/ /\ r.st = "pipeline" /\ r.pos <= Len(pipeline)
     /\ (pipeline[r.pos].reg = "update" \/ pipeline[r.pos] = Mw("stage"))

(* C11: for every update the context augmenter attaches both ok and        *)
(* okAndEdit and calls next exactly once; it comes before everything the   *)
(* registrars install, so no guard, middleware or handler of a component   *)
(* runs on a context that lacks either capability.                         *)
C11_AugmentedBeforeUserCode ==
  \A u \in DOMAIN run :
    LET r == run[u]
    IN r.st # "idle" =>
         /\ r.augNext <= 1
         /\ (r.augNext = 1 => HasCapabilities(r.ctx))
         /\ (AtUserCode(r) => r.augNext = 1 /\ HasCapabilities(r.ctx))
         /\ ~r.bare
         /\ r.st # "unmatched"

C11_Witness ==
  \E u \in DOMAIN run :
    LET r == run[u]
    IN /\ r.st = "done" /\ r.binding.reg = "update" /\ r.binding.owner = "U1"
       /\ HasCapabilities(r.ctx) /\ r.augNext = 1
       /\ r.pos > 5

\* the pending result of guard k has not settled yet
Pending(r, k) == k \in r.floating \/ (r.st = "awaiting" /\ r.i = k)

(* C12: while the result of guard gi is pending, whether gi is an async    *)
(* function or a plain function returning a pending result, the loop has   *)
(* not invoked gi+1 and next has not been called.                          *)
C12_PendingGuardBlocksLoop ==
  \A u \in DOMAIN run :
    LET r == run[u]
    IN \A k \in DOMAIN r.guards.list :
         Pending(r, k) =>
           /\ (k + 1) \notin Range(r.invoked)
           /\ r.nextCalls = 0

Forwarders(r) ==
  {k \in Range(r.invoked) : r.guards.list[k].fwd /\ k < Len(r.guards.list)}

(* C13: when no guard throws, every guard's body runs at least once; for   *)
(* i < n-1, if gi calls the reference it was handed, the body of gi+1 is   *)
(* entered exactly twice (once otherwise); the reference handed to the     *)
(* last guard is a no-op: forwarding from it enters no guard and does not  *)
(* call next, which only the loop calls, once, at its end.                 *)
C13_ForwardingEntersNextGuardTwice ==
  \A u \in DOMAIN run :
    LET r == run[u]
        n == Len(r.guards.list)
    IN (r.st # "idle" /\ r.guards.def /\ AllOk(r)) =>
         /\ \A k \in Range(r.invoked) : Count(r.entered, k) >= 1
         /\ Range(r.entered) \subseteq 1..n
         /\ Len(r.entered) = Len(r.invoked) + Cardinality(Forwarders(r))
         /\ r.nextCalls = (IF r.st = "done" THEN 1 ELSE 0)
         /\ r.st = "done" =>
              /\ \A k \in 1..n : Count(r.entered, k) >= 1
              /\ \A k \in 1..(n - 1) :
                   Count(r.entered, k + 1) = (IF r.guards.list[k].fwd THEN 2 ELSE 1)

C13_Witness ==
  \E u \in DOMAIN run :
    LET r == run[u]
    IN /\ r.st = "done" /\ AllOk(r)
       /\ Len(r.guards.list) = 3
       /\ r.guards.list[1].fwd /\ ~r.guards.list[2].fwd /\ r.guards.list[3].fwd
       /\ r.entered = <<1, 2, 2, 3>>
       /\ r.nextCalls = 1

(* C14: when two updates pass through the same guard-chain middleware and  *)
(* interleave, each update's guards run in declared order and its handler  *)
(* runs exactly once after them; a guard that throws or rejects for an     *)
(* update prevents that update's handler, and only that one.               *)
C14_UpdatesIndependent ==
  \A u \in DOMAIN run :
    LET r == run[u]
        n == Len(r.guards.list)
    IN /\ r.invoked = UpTo(Len(r.invoked))
       /\ r.nextCalls <= 1
       /\ (r.nextCalls = 1 => r.invoked = UpTo(n))
       /\ (AllOk(r) => r.st # "failed" /\ r.nextCalls = (IF r.st = "done" THEN 1 ELSE 0))
       /\ \A k \in DOMAIN r.guards.list : GuardFailed(r, k) => r.nextCalls = 0

\* the registrations made on the bot-wide router by update components
UpdateEntries == SelectSeq(pipeline, LAMBDA b : b.reg = "update")

KindRank(kind) ==
  CASE kind = "use" -> 1
    [] kind = "hears" -> 2
    [] kind = "on" -> 3
    [] kind = "command" -> 4
    [] OTHER -> 0

\* what component cls declares for one kind of registration
Declared(cls, kind) ==
  LET inst == UpdateInstance(cls)
  IN CASE kind = "use" -> inst.middlewares
       [] kind = "hears" -> inst.hearsListeners
       [] kind = "on" -> inst.eventListeners
       [] kind = "command" -> inst.commandListeners

\* the handlers registered for the k-th component and one kind, in order
RegisteredHandlers(k, kind) ==
  LET sel == SelectSeq(UpdateEntries, LAMBDA b : b.pos = k /\ b.kind = kind)
  IN [i \in DOMAIN sel |-> sel[i].handler]

(* C15: registerUpdates processes the components in the given order, all   *)
(* of component k before component k+1; for each component its global      *)
(* middlewares come first, then its text listeners, its event listeners    *)
(* and its command listeners, each group in declared order.                *)
C15_UpdateRegistrationOrder ==
  LET ups == UpdateEntries
  IN (ups # <<>> \/ pc \in {"launch", "done"}) =>
       /\ \A i, j \in DOMAIN ups :
            i < j =>
              /\ ups[i].pos <= ups[j].pos
              /\ (ups[i].pos = ups[j].pos =>
                    KindRank(ups[i].kind) <= KindRank(ups[j].kind))
       /\ \A i \in DOMAIN ups :
            /\ ups[i].pos \in DOMAIN updatesRegistry
            /\ ups[i].owner = updatesRegistry[ups[i].pos]
            /\ KindRank(ups[i].kind) > 0
       /\ \A k \in DOMAIN updatesRegistry :
            \A kind \in {"use", "hears", "on", "command"} :
              RegisteredHandlers(k, kind) = Declared(updatesRegistry[k], kind)

C15_Witness ==
  /\ updatesRegistry = <<"U2", "U1">>
  /\ launches > 0
  /\ [i \in DOMAIN UpdateEntries |-> UpdateEntries[i].handler]
       = <<"onPhoto", "onVideo", "log", "auth", "onHi", "start">>

StageInstalls == Count(pipeline, Mw("stage"))

(* C16: in every pass of registerScenes that completes without error, the  *)
(* empty pass included, the stage middleware is installed on the bot-wide  *)
(* router exactly once, and only after the last scene has been committed;  *)
(* in a pass that raises it is not installed at all.                       *)
C16_StageInstalledOnceAfterScenes ==
  /\ StageInstalls <= 1
  /\ StageInstalls = 1 =>
       /\ StageIds = scenesRegistry
       /\ registeredScenes = scenesRegistry
       /\ error # "duplicateScene"
  /\ (ScenesPassOver /\ error = "none") => StageInstalls = 1
  /\ error = "duplicateScene" => StageInstalls = 0

C16_Witness ==
  /\ scenesRegistry = <<"home", "ctl">>
  /\ StageIds = scenesRegistry
  /\ StageInstalls = 1
  /\ pc = "done"

SessionMws == SelectSeq(pipeline, IsSessionMw)

(* C17: in every bring-up that gets past session set-up exactly one        *)
(* session middleware, the redis-backed or the in-memory one, never both   *)
(* and never none, is installed on the bot-wide router, and it is          *)
(* installed before any other middleware.                                  *)
C17_OneSessionMiddlewareFirst ==
  /\ Len(SessionMws) <= 1
  /\ pipeline # <<>> => IsSessionMw(pipeline[1])
  /\ (pc # "session" /\ error # "redisLostConnection") =>
       /\ Len(SessionMws) = 1
       /\ IsSessionMw(pipeline[1])
       /\ \A k \in 2..Len(pipeline) : ~IsSessionMw(pipeline[k])

C17_Witness ==
  /\ pc = "done"
  /\ config.session
  /\ Len(pipeline) > 3
  /\ IsSessionMw(pipeline[1])
  /\ pipeline[2] = Mw("inject")
  /\ Len(SessionMws) = 1

IsPrefix(a, b) == Len(a) <= Len(b) /\ SubSeq(b, 1, Len(a)) = a

DuplicateFree(ids) == \A i, j \in DOMAIN ids : ids[i] = ids[j] => i = j

\* the registered-id list against the scenes committed to the stage so far
RegisteredMatchesCommitted ==
  /\ DuplicateFree(registeredScenes)
  /\ registeredScenes = StageIds
  /\ IsPrefix(registeredScenes, scenesRegistry)
  /\ \A k \in DOMAIN registeredScenes :
       /\ stage[k].sceneId = registeredScenes[k]
       /\ stage[k].bindings = SceneBindings(registeredScenes[k])
       /\ \A i \in DOMAIN stage[k].bindings : stage[k].bindings[i].bound

(* C18: the registered scene-id list of a pass is duplicate-free, equals   *)
(* the sceneIds of the scenes committed so far (an id is in it only when   *)
(* its scene, with all its handlers bound, is committed), is a prefix of   *)
(* the sceneIds of the input list, and never shrinks.                      *)
C18_RegisteredIdsTrackCommits ==
  /\ []RegisteredMatchesCommitted
  /\ [][IsPrefix(registeredScenes, registeredScenes')]_vars

C18_Witness ==
  /\ scenesRegistry = <<"home", "ctl", "home">>
  /\ registeredScenes = <<"home", "ctl">>
  /\ StageIds = <<"home", "ctl">>
  /\ error = "duplicateScene"

(* C19: every handler method registered for an update component is        *)
(* registered bound to its instance, exactly as the handlers of the        *)
(* committed scenes are.                                                   *)
C19_UpdateHandlersBound ==
  /\ \A k \in DOMAIN stage :
       \A i \in DOMAIN stage[k].bindings : stage[k].bindings[i].bound
  /\ \A k \in DOMAIN pipeline :
       pipeline[k].reg = "update" => pipeline[k].bound

====
